---- MODULE Spec2Model ----
(***************************************************************************)
(* Growth Track signup processor (src/index.js): one scheduled run scans   *)
(* the mailbox, extracts a record from every message, appends the records  *)
(* that are not yet in the sheet, marks the messages read and mails the    *)
(* exported sheet when something was appended.                             *)
(*                                                                         *)
(* Strings are sequences of atoms: an atom is a word (a run of characters  *)
(* that holds neither whitespace nor '<'), the whitespace run " " or the   *)
(* markup character "<".  String equality is equality of sequences.        *)
(*                                                                         *)
(* A decoded body is a sequence of table rows; a row is a label cell       *)
(* (<td valign="top">label</td>) followed by a value cell (<td>cell</td>). *)
(*                                                                         *)
(* Every awaited call (Gmail, Drive, Sheets, SMTP, the log file) can       *)
(* reject.  An action models one handler; the call at which it fails, if   *)
(* any, is an input of the action.                                         *)
(***************************************************************************)
EXTENDS Integers, Sequences, FiniteSets, TLC

VARIABLES
    mail,           \* the mailbox: id -> [subject, internalDate, body]
    unread,         \* ids carrying the UNREAD label
    now,            \* the clock (days) at the start of the run
    folder,         \* the "Growth Track Registrations" folder exists
    tables,         \* spreadsheets named "Growth Track Signups": id -> [inFolder, rows]
    tempFile,       \* GrowthTrackSignups.xlsx exists in the working directory
    pc,             \* position of main: "idle", "loop", "report", "done", "crashed"
    messages,       \* main: the list queryEmails returned
    idx,            \* main: position of the for loop in messages
    spreadsheetId,  \* main: let spreadsheetId (0 = undefined)
    processedCount, \* main: let processedCount
    skippedCount,   \* main: let skippedCount
    runs,           \* number of runs started
    faults,         \* number of handlers in which a call rejected
    resolutions,    \* calls of createOrGetSpreadsheet in this run
    startUnread,    \* the ids that were unread when this run started
    appendedRun,    \* rows appended to a sheet in this run
    exportCalls,    \* drive.files.export calls in this run
    sendCalls,      \* transporter.sendMail calls in this run
    last,           \* what the last handler did
    broken,         \* the messages whose payload has no body data to decode
    xbody,          \* extraction harness: a decoded body
    xrec,           \* extraction harness: the fields extracted from xbody
    xpayload,       \* fetch harness: res.data.payload of a fetched message
    xout            \* fetch harness: how extractSignupInfo ended

vars == <<mail, unread, now, folder, tables, tempFile, pc, messages, idx,
          spreadsheetId, processedCount, skippedCount, runs, faults,
          resolutions, startUnread, appendedRun, exportCalls, sendCalls, last,
          broken, xbody, xrec, xpayload, xout>>

xvars == <<xbody, xrec, xpayload, xout>>

mainVars == <<mail, unread, now, folder, tables, tempFile, pc, messages, idx,
              spreadsheetId, processedCount, skippedCount, runs, faults,
              resolutions, startUnread, appendedRun, exportCalls, sendCalls, last,
              broken>>

-----------------------------------------------------------------------------
(* Bounds *)

NumMsgs == 2
MaxRuns == 2
MaxFaults == 1
MaxRows == 3
MaxParts == 2

(* Program constants *)

WindowDays == 7
MaxResults == 100

-----------------------------------------------------------------------------
(* Strings *)

SP == " "
LT == "<"

NotProvided == <<"Not", SP, "provided">>

RECURSIVE TrimStart(_)
TrimStart(s) ==
    IF s # <<>> /\ Head(s) = SP THEN TrimStart(Tail(s)) ELSE s

RECURSIVE TrimEnd(_)
TrimEnd(s) ==
    IF s # <<>> /\ s[Len(s)] = SP THEN TrimEnd(SubSeq(s, 1, Len(s) - 1)) ELSE s

\* Mutant: the capture is stored as matched.
TrimNothing(s) == s

Trim(s) == TrimEnd(TrimStart(s))

Lower(label) ==
    CASE label = "Full Name:" -> "full name:"
      [] label = "FULL NAME:" -> "full name:"
      [] label = "Phone:" -> "phone:"
      [] label = "PHONE:" -> "phone:"
      [] label = "Email:" -> "email:"
      [] label = "EMAIL:" -> "email:"
      [] OTHER -> label

Range(s) == {s[i] : i \in DOMAIN s}

RECURSIVE SortedSeq(_)
SortedSeq(S) ==
    IF S = {} THEN <<>>
    ELSE LET m == CHOOSE x \in S : \A y \in S : x <= y
         IN <<m>> \o SortedSeq(S \ {m})

Take(s, n) == IF Len(s) <= n THEN s ELSE SubSeq(s, 1, n)

-----------------------------------------------------------------------------
(* Field extractor *)

PatternLabel == [name |-> "Full Name:", phone |-> "Phone:", email |-> "Email:"]

FieldNames == {"name", "phone", "email"}

\* The rows of body that /<td valign="top">label<\/td>\s*<td>([^<]+)<\/td>/i
\* matches: the label cell holds the label in any case, the value cell holds
\* at least one character and no '<'.
Matches(body, label) ==
    {i \in DOMAIN body :
        /\ Lower(body[i].label) = Lower(label)
        /\ body[i].cell # <<>>
        /\ LT \notin Range(body[i].cell)}

\* extractedInfo[key] after the loop over the patterns: the trimmed capture
\* of the first match, '' (the empty string) without a match.
ExtractField(body, key) ==
    LET hits == Matches(body, PatternLabel[key])
    IN IF hits # {}
       THEN Trim(body[CHOOSE i \in hits : \A j \in hits : i <= j].cell)
       ELSE <<>>

\* Mutant: the field is returned as extracted.
OrNothing(x) == x

\* x || 'Not provided': the empty string is falsy.
OrNotProvided(x) == IF x = <<>> THEN NotProvided ELSE x

FormatDate(internalDate) == <<"day", internalDate>>

ExtractSignupInfo(msg) ==
    [date  |-> FormatDate(msg.internalDate),
     name  |-> OrNotProvided(ExtractField(msg.body, "name")),
     phone |-> OrNotProvided(ExtractField(msg.body, "phone")),
     email |-> OrNotProvided(ExtractField(msg.body, "email"))]

-----------------------------------------------------------------------------
(* Store: the Drive folder and the spreadsheets *)

HeaderRow == << <<"Registration", SP, "Date">>, <<"Full", SP, "Name">>,
                <<"Phone">>, <<"Email">> >>

RowOf(data) == <<data.date, data.name, data.phone, data.email>>

\* valueInputOption: 'USER_ENTERED': the sheet parses a cell as if it were
\* typed in, and values.get returns the cell as the sheet shows it.  A text of
\* digits becomes a number and is shown without its leading zeros; the other
\* texts of the model stay as they are.
Digits == {"0", "82", "555"}

Numeric(s) == s # <<>> /\ \A i \in DOMAIN s : s[i] \in Digits

RECURSIVE StripZeros(_)
StripZeros(s) ==
    IF Len(s) > 1 /\ Head(s) = "0" THEN StripZeros(Tail(s)) ELSE s

UserEntered(s) == IF Numeric(s) THEN StripZeros(s) ELSE s

UserEnteredRow(row) == [i \in DOMAIN row |-> UserEntered(row[i])]

\* drive.files.list of the spreadsheets named "Growth Track Signups" whose
\* parent is the folder.
TablesInFolder(f, t) == IF f THEN {i \in DOMAIN t : t[i].inFolder} ELSE {}

ResolveFails == {"folderList", "folderCreate", "tableList", "sheetsGet",
                 "tableCreate", "batchUpdate", "filesUpdate", "logMoved"}

\* createOrGetSpreadsheet on the drive state (f, t); fp is the call that
\* rejects ("none": no call does).  A rejected writeLog leaves the state of
\* the next rejected call, except the last one ("logMoved").
\* Result: the drive state afterwards, ok (returned), id (the value returned).
CreateOrGetSpreadsheet(f, t, fp) ==
    LET found == TablesInFolder(f, t)
        t1 == Append(t, [inFolder |-> FALSE, rows |-> <<HeaderRow>>])
        new == Len(t1)
        t2 == [t1 EXCEPT ![new].inFolder = TRUE]
        Out(ff, tt, ok, id) == [folder |-> ff, tables |-> tt, ok |-> ok, id |-> id]
    IN IF fp = "folderList" THEN Out(f, t, FALSE, 0)
       ELSE IF ~f /\ fp = "folderCreate" THEN Out(f, t, FALSE, 0)
       ELSE IF fp = "tableList" THEN Out(TRUE, t, FALSE, 0)
       ELSE IF found # {}
            THEN IF fp = "sheetsGet" THEN Out(TRUE, t, FALSE, 0)
                 ELSE Out(TRUE, t, TRUE, CHOOSE i \in found : \A j \in found : i <= j)
       ELSE IF fp = "tableCreate" THEN Out(TRUE, t, FALSE, 0)
       ELSE IF fp \in {"batchUpdate", "filesUpdate"} THEN Out(TRUE, t1, FALSE, 0)
       ELSE IF fp = "logMoved" THEN Out(TRUE, t2, FALSE, 0)
       ELSE Out(TRUE, t2, TRUE, new)

\* Mutant: the phone column is left out of the comparison.
IsDuplicateEntryNoPhone(data, rows) ==
    \E i \in DOMAIN rows :
        /\ rows[i][2] = data.name
        /\ rows[i][4] = data.email

\* rows.some(row => row[1] === data.name && row[2] === data.phone &&
\* row[3] === data.email) over the rows values.get returned.
IsDuplicateEntry(data, rows) ==
    \E i \in DOMAIN rows :
        /\ rows[i][2] = data.name
        /\ rows[i][3] = data.phone
        /\ rows[i][4] = data.email

-----------------------------------------------------------------------------
(* Mailbox scanner *)

PrimarySubject == "Growth Track Signup"
LegacySubject == "Growth Track Sign Up Form"
OtherSubject == "Weekly Newsletter"

\* gmail.users.messages.list with q = subject:"<subject>" is:unread
ListUnread(subject) ==
    Take(SortedSeq({m \in unread : mail[m].subject = subject}), MaxResults)

\* const after = ... : computed from the clock, used by no query
After(clock) == clock - WindowDays

\* Mutant: both queries are issued and their results joined.
QueryBothSubjects == ListUnread(PrimarySubject) \o ListUnread(LegacySubject)

\* queryEmails: the primary query, and the legacy query when the primary one
\* returned no message
QueryEmails ==
    LET first == ListUnread(PrimarySubject)
    IN IF Len(first) = 0 THEN ListUnread(LegacySubject) ELSE first

-----------------------------------------------------------------------------
(* One iteration of the loop of main *)

NoRec == [date |-> <<>>, name |-> <<>>, phone |-> <<>>, email |-> <<>>]

MessageFails == {"fetch", "resolve", "valuesGet", "logSkip", "saveResolve",
                 "append", "logSaved", "logProcessed", "modify", "logMarked"}

\* The state of one iteration: the drive, the variables of main, what the
\* iteration did so far, and failed: a call rejected (the catch clause of
\* the loop is entered).
IterationStart ==
    [folder |-> folder, tables |-> tables, sid |-> spreadsheetId,
     processed |-> processedCount, skipped |-> skippedCount,
     rec |-> NoRec, dupChecked |-> FALSE, isDup |-> FALSE,
     rowsAdded |-> 0, markCalled |-> FALSE, marked |-> FALSE,
     failed |-> FALSE, res |-> 0]

\* const signupInfo = await extractSignupInfo(auth, message.id)
StepExtract(s, m, fp) ==
    IF fp = "fetch" THEN [s EXCEPT !.failed = TRUE]
    ELSE [s EXCEPT !.rec = ExtractSignupInfo(mail[m])]

\* if (!spreadsheetId) spreadsheetId = await createOrGetSpreadsheet(auth)
StepResolve(s, fp, rp) ==
    IF s.failed \/ s.sid # 0 THEN s
    ELSE LET r == CreateOrGetSpreadsheet(s.folder, s.tables,
                                         IF fp = "resolve" THEN rp ELSE "none")
         IN [s EXCEPT !.folder = r.folder, !.tables = r.tables,
                      !.sid = r.id, !.res = 1, !.failed = ~r.ok]

\* const isDuplicate = await isDuplicateEntry(auth, signupInfo, spreadsheetId)
StepDuplicate(s, fp) ==
    IF s.failed THEN s
    ELSE IF fp = "valuesGet" THEN [s EXCEPT !.failed = TRUE]
    ELSE [s EXCEPT !.dupChecked = TRUE,
                   !.isDup = IsDuplicateEntry(s.rec, s.tables[s.sid].rows)]

\* saveToGoogleSheets(auth, data), then spreadsheetId = result.spreadsheetId
\* and processedCount++ in main.  values.append puts the four values at the
\* end of the sheet, as the sheet parses them.
SaveToGoogleSheets(s, fp, rp) ==
    LET r == CreateOrGetSpreadsheet(s.folder, s.tables,
                                    IF fp = "saveResolve" THEN rp ELSE "none")
        resolved == [s EXCEPT !.folder = r.folder, !.tables = r.tables,
                              !.res = @ + 1]
    IN IF ~r.ok \/ fp = "append" THEN [resolved EXCEPT !.failed = TRUE]
       ELSE [resolved EXCEPT
                !.tables[r.id].rows = Append(@, UserEnteredRow(RowOf(s.rec))),
                !.rowsAdded = 1,
                !.sid = IF fp = "logSaved" THEN @ ELSE r.id,
                !.processed = IF fp = "logSaved" THEN @ ELSE @ + 1,
                !.failed = fp \in {"logSaved", "logProcessed"}]

\* if (isDuplicate) { ...; skippedCount++ } else { saveToGoogleSheets ... }
StepWrite(s, fp, rp) ==
    IF s.failed THEN s
    ELSE IF s.isDup
         THEN IF fp = "logSkip" THEN [s EXCEPT !.failed = TRUE]
              ELSE [s EXCEPT !.skipped = @ + 1]
    ELSE SaveToGoogleSheets(s, fp, rp)

\* Mutant: mark-read sits in the branch that appends.
MarkOnlyAppended(s, fp) ==
    IF s.failed \/ s.rowsAdded = 0 THEN s
    ELSE [s EXCEPT !.markCalled = TRUE,
                   !.marked = fp # "modify",
                   !.failed = fp \in {"modify", "logMarked"}]

\* Mutant: a rejected mark-read takes the appended record out of the count.
MarkUncounts(s, fp) ==
    IF s.failed THEN s
    ELSE [s EXCEPT !.markCalled = TRUE,
                   !.marked = fp # "modify",
                   !.failed = fp \in {"modify", "logMarked"},
                   !.processed = IF fp = "modify" THEN @ - s.rowsAdded ELSE @]

\* await markEmailAsRead(auth, message.id)
MarkEmailAsRead(s, fp) ==
    IF s.failed THEN s
    ELSE [s EXCEPT !.markCalled = TRUE,
                   !.marked = fp # "modify",
                   !.failed = fp \in {"modify", "logMarked"}]

-----------------------------------------------------------------------------
(* Report dispatcher *)

SendFails == {"logPrepare", "export", "writeFile", "sendMail", "logSent"}

\* fs.unlink(tempFilePath): removes the file; rejects (ENOENT) when there is
\* none, which the handler ignores.
Unlink(file) == FALSE

\* Mutant: the catch clause rethrows without the unlink.
SendEmailCatchNoCleanup(file) == file

\* The catch clause of sendEmail: unlink, then rethrow.
SendEmailCatch(file) == Unlink(file)

\* sendEmail(auth, spreadsheetId): fp is the call that rejects, partial tells
\* whether a rejected fs.writeFile left a file behind.
\* Result: the temp file afterwards, the export and send calls made, ok.
SendEmail(file, fp, partial) ==
    LET Out(f, e, n, ok) == [file |-> f, exports |-> e, sends |-> n, ok |-> ok]
    IN IF fp = "logPrepare" THEN Out(SendEmailCatch(file), 0, 0, FALSE)
       ELSE IF fp = "export" THEN Out(SendEmailCatch(file), 1, 0, FALSE)
       ELSE IF fp = "writeFile" THEN Out(SendEmailCatch(file \/ partial), 1, 0, FALSE)
       ELSE IF fp = "sendMail" THEN Out(SendEmailCatch(TRUE), 1, 1, FALSE)
       ELSE IF fp = "logSent" THEN Out(SendEmailCatch(TRUE), 1, 1, FALSE)
       ELSE Out(Unlink(TRUE), 1, 1, TRUE)

\* Mutant: the report is sent whatever the count.
ReportAlways(count) == TRUE

\* if (processedCount > 0)
ReportGate(count) == count > 0

-----------------------------------------------------------------------------
(* Decoding of the fetched message *)

\* body.data of a message part: absent (undefined), or the base64 text of a body
NoData == [defined |-> FALSE, base64 |-> <<>>]

Base64(body) == [defined |-> TRUE, base64 |-> body]

\* Buffer.from(data, 'base64').toString('utf8'): a TypeError when data is
\* undefined.  Result: threw, body.
BufferFrom(data) ==
    IF data.defined THEN [threw |-> FALSE, body |-> data.base64]
    ELSE [threw |-> TRUE, body |-> <<>>]

\* const body = res.data.payload.parts ? Buffer.from(parts[0].body.data, ...)
\*                                     : Buffer.from(payload.body.data, ...)
\* multipart: payload.parts is there (an array, also an empty one, is truthy).
DecodeBody(payload) ==
    IF payload.multipart
    THEN IF payload.parts = <<>> THEN [threw |-> TRUE, body |-> <<>>]
         ELSE BufferFrom(payload.parts[1])
    ELSE BufferFrom(payload.data)

FetchFails == {"get", "log"}

\* extractSignupInfo(auth, messageId) on a message whose payload is payload;
\* fp is the call that rejects.  Result: out ("returned" or "threw"), rec.
ExtractFetched(payload, fp) ==
    LET d == DecodeBody(payload)
    IN IF fp # "none" \/ d.threw THEN [out |-> "threw", rec |-> NoRec]
       ELSE [out |-> "returned",
             rec |-> ExtractSignupInfo([subject |-> PrimarySubject,
                                        internalDate |-> 0, body |-> d.body])]

-----------------------------------------------------------------------------
(* The mailbox and the bodies of the runs *)

Subjects == {PrimarySubject, LegacySubject, OtherSubject}

Row(label, cell) == [label |-> label, cell |-> cell]

\* Phone cells: digits, and digits after a leading zero.
PhoneCells == {<<"555">>, <<"0", "82">>}

BodyAOf(phone) == << Row("Full Name:", <<"Ann">>), Row("Phone:", phone),
                     Row("Email:", <<"ann@x">>) >>
BodyCOf(phone) == << Row("FULL NAME:", <<SP, "Ann", SP>>), Row("Phone:", phone),
                     Row("Email:", <<"ann@x", SP>>) >>

BodyA == BodyAOf(<<"555">>)
BodyZ == BodyAOf(<<"0", "82">>)
BodyB == << Row("Full Name:", <<"Ann">>), Row("Email:", <<"ann@x">>) >>
BodyC == BodyCOf(<<"555">>)

MainBodies == {BodyA, BodyB, BodyC}

Msg(subject, internalDate, body) ==
    [subject |-> subject, internalDate |-> internalDate, body |-> body]

\* The messages of the runs: three bodies under the primary subject (all
\* fields, no phone row, a phone with a leading zero), a message under the
\* legacy subject, one under another subject, and one received more than 7
\* days before the first run.
MainMsgs ==
    {Msg(PrimarySubject, WindowDays, BodyA),
     Msg(PrimarySubject, WindowDays, BodyB),
     Msg(PrimarySubject, WindowDays, BodyZ),
     Msg(LegacySubject, WindowDays, BodyA),
     Msg(OtherSubject, WindowDays, BodyB),
     Msg(PrimarySubject, 0, BodyB)}

NoLast == [op |-> "none", msg |-> 0, fp |-> "none", cl |-> "ok", rec |-> NoRec,
           dupChecked |-> FALSE, isDup |-> FALSE, rowsAdded |-> 0,
           markCalled |-> FALSE, marked |-> FALSE]

InitRun ==
    /\ unread = DOMAIN mail
    /\ now = WindowDays
    /\ folder = FALSE
    /\ tables = <<>>
    /\ tempFile = FALSE
    /\ pc = "idle"
    /\ messages = <<>>
    /\ idx = 1
    /\ spreadsheetId = 0
    /\ processedCount = 0
    /\ skippedCount = 0
    /\ runs = 0
    /\ faults = 0
    /\ resolutions = 0
    /\ startUnread = {}
    /\ appendedRun = 0
    /\ exportCalls = 0
    /\ sendCalls = 0
    /\ last = NoLast

NoPayload == [multipart |-> FALSE, parts |-> <<>>, data |-> NoData]

InitX ==
    /\ xbody = <<>>
    /\ xrec = NoRec
    /\ xpayload = NoPayload
    /\ xout = "none"

Init ==
    /\ mail \in [1..NumMsgs -> MainMsgs]
    /\ InitRun
    /\ broken = {}
    /\ InitX

\* The bodies of the end-to-end scenario: A with all three fields, B without
\* the phone row, C with the triple of A.
Scenario(phone) == {BodyAOf(phone), BodyB, BodyCOf(phone)}

\* The end-to-end scenario: three unread messages with the bodies A, B and C
\* in any order, each under one of the two subjects.
InitE2E ==
    /\ \E phone \in PhoneCells :
          mail \in {f \in [1..Cardinality(Scenario(phone)) ->
                              [subject : {PrimarySubject, LegacySubject},
                               internalDate : {WindowDays},
                               body : Scenario(phone)]] :
                        {f[i].body : i \in DOMAIN f} = Scenario(phone)}
    /\ InitRun
    /\ broken = {}
    /\ InitX

\* The bodies of the extraction harness.
XLabels == {"Full Name:", "FULL NAME:", "Phone:", "Email:", "Other:"}

XCells == {<<"Ann">>, <<SP, "Bo", SP>>, <<SP>>, <<>>, <<"Cy", LT>>}

XBodies == UNION {[1..k -> [label : XLabels, cell : XCells]] : k \in 0..MaxRows}

InitExtract ==
    /\ mail = <<>>
    /\ InitRun
    /\ broken = {}
    /\ xbody \in XBodies
    /\ xrec = NoRec
    /\ xpayload = NoPayload
    /\ xout = "none"

\* The bodies of the header harness: value cells that hold the column titles.
HLabels == {"Full Name:", "Phone:", "Email:"}

HCells == {HeaderRow[2], HeaderRow[3], HeaderRow[4], <<"Ann">>, <<>>}

HBodies == UNION {[1..k -> [label : HLabels, cell : HCells]] : k \in 0..MaxRows}

InitHeader ==
    /\ mail = <<>>
    /\ InitRun
    /\ broken = {}
    /\ xbody \in HBodies
    /\ xrec = NoRec
    /\ xpayload = NoPayload
    /\ xout = "none"

\* The mailbox of the repeated runs: any of the messages may be one whose
\* payload has no body data where extractSignupInfo reads it.
InitRepeat ==
    /\ mail \in [1..NumMsgs -> MainMsgs]
    /\ InitRun
    /\ broken \in SUBSET (1..NumMsgs)
    /\ InitX

\* The payloads of the fetch harness: single-part and multipart messages, the
\* parts and the top-level body with or without data.
XData == {NoData} \cup {Base64(b) : b \in MainBodies}

XPayloads ==
    [multipart : BOOLEAN,
     parts : UNION {[1..k -> XData] : k \in 0..MaxParts},
     data : XData]

InitFetch ==
    /\ mail = <<>>
    /\ InitRun
    /\ broken = {}
    /\ xbody = <<>>
    /\ xrec = NoRec
    /\ xpayload \in XPayloads
    /\ xout = "none"

-----------------------------------------------------------------------------
(* main *)

CatchLogs == {"ok", "catchLog", "outerLog"}

\* main up to the loop: authorize, queryEmails.  fp: the call that rejects;
\* cl = "outerLog": writeLog rejects in the catch clause of main.
MainStart(fp, cl) ==
    /\ pc \in {"idle", "done", "crashed"}
    /\ cl # "ok" => fp # "none"
    /\ fp = "metadata" => QueryEmails # <<>>
    /\ messages' = IF fp = "none" THEN QueryEmails ELSE <<>>
    /\ pc' = IF fp = "none" THEN "loop" ELSE IF cl = "ok" THEN "done" ELSE "crashed"
    /\ idx' = 1
    /\ spreadsheetId' = 0
    /\ processedCount' = 0
    /\ skippedCount' = 0
    /\ resolutions' = 0
    /\ startUnread' = unread
    /\ appendedRun' = 0
    /\ exportCalls' = 0
    /\ sendCalls' = 0
    /\ last' = [NoLast EXCEPT !.op = "start", !.fp = fp, !.cl = cl]
    /\ UNCHANGED <<mail, unread, folder, tables, tempFile, broken, xvars>>

\* A run of the bounded model: the runs are scheduled a day apart, and a
\* rejected call draws on the budget of faults.
StartRun(fp, cl) ==
    /\ runs < MaxRuns
    /\ fp # "none" => faults < MaxFaults
    /\ MainStart(fp, cl)
    /\ runs' = runs + 1
    /\ now' = now + 1
    /\ faults' = IF fp = "none" THEN faults ELSE faults + 1

\* Mutant: the loop has no try block of its own.
LoopNoCatch(failed, cl) ==
    IF ~failed THEN "loop" ELSE IF cl = "outerLog" THEN "crashed" ELSE "done"

\* Where main stands after an iteration: the catch clause of the loop logs the
\* error and continues; when that log write rejects, the error goes to the
\* catch clause of main, and when that one's log write rejects too, out of main.
LoopCatch(failed, cl) ==
    IF ~failed \/ cl = "ok" THEN "loop"
    ELSE IF cl = "catchLog" THEN "done" ELSE "crashed"

\* One iteration of for (const message of messages), its catch clause included:
\* the steps of the try block in their order, o the state they end in.  fp is
\* the call that rejects, rp the call inside createOrGetSpreadsheet when fp is
\* one of its two calls.
\* cl = "catchLog": writeLog rejects in the catch clause of the loop and the
\* catch clause of main logs the error; cl = "outerLog": that one rejects too.
MainIteration(fp, rp, cl) ==
    /\ pc = "loop"
    /\ idx <= Len(messages)
    /\ rp # "none" => fp \in {"resolve", "saveResolve"}
    /\ \E m \in {messages[idx]} :
       \E s1 \in {StepExtract(IterationStart, m, fp)} :
       \E s2 \in {StepResolve(s1, fp, rp)} :
       \E s3 \in {StepDuplicate(s2, fp)} :
       \E s4 \in {StepWrite(s3, fp, rp)} :
       \E o \in {MarkEmailAsRead(s4, fp)} :
          /\ (fp = "none") = ~o.failed
          /\ cl # "ok" => o.failed
          /\ folder' = o.folder
          /\ tables' = o.tables
          /\ spreadsheetId' = o.sid
          /\ processedCount' = o.processed
          /\ skippedCount' = o.skipped
          /\ unread' = IF o.marked THEN unread \ {m} ELSE unread
          /\ resolutions' = resolutions + o.res
          /\ appendedRun' = appendedRun + o.rowsAdded
          /\ pc' = LoopCatch(o.failed, cl)
          /\ last' = [op |-> "message", msg |-> m, fp |-> fp, cl |-> cl,
                      rec |-> o.rec,
                      dupChecked |-> o.dupChecked, isDup |-> o.isDup,
                      rowsAdded |-> o.rowsAdded, markCalled |-> o.markCalled,
                      marked |-> o.marked]
    /\ idx' = idx + 1
    /\ UNCHANGED <<mail, now, tempFile, messages, runs, startUnread,
                   exportCalls, sendCalls, broken, xvars>>

\* An iteration of the bounded model: a rejected call draws on the budget.
ProcessMessage(fp, rp, cl) ==
    /\ fp # "none" => faults < MaxFaults
    /\ MainIteration(fp, rp, cl)
    /\ faults' = IF fp = "none" THEN faults ELSE faults + 1

ReportFails == {"logComplete", "logDone"} \cup SendFails

\* main after the loop: the report and the end of the run.
MainReport(fp, partial, cl) ==
    /\ pc = "loop"
    /\ idx > Len(messages)
    /\ cl # "ok" => fp # "none"
    /\ fp \in SendFails => ReportGate(processedCount)
    /\ partial => fp = "writeFile"
    /\ LET send == ReportGate(processedCount) /\ fp # "logComplete"
           o == SendEmail(tempFile, fp, partial)
       IN /\ tempFile' = IF send THEN o.file ELSE tempFile
          /\ exportCalls' = IF send THEN exportCalls + o.exports ELSE exportCalls
          /\ sendCalls' = IF send THEN sendCalls + o.sends ELSE sendCalls
    /\ pc' = IF cl = "ok" THEN "done" ELSE "crashed"
    /\ last' = [NoLast EXCEPT !.op = "report", !.fp = fp, !.cl = cl]
    /\ UNCHANGED <<mail, unread, now, folder, tables, messages, idx,
                   spreadsheetId, processedCount, skippedCount, runs,
                   resolutions, startUnread, appendedRun, broken, xvars>>

\* The report step of the bounded model.
Report(fp, partial, cl) ==
    /\ fp # "none" => faults < MaxFaults
    /\ MainReport(fp, partial, cl)
    /\ faults' = IF fp = "none" THEN faults ELSE faults + 1

Next ==
    \/ \E fp \in {"none", "authorize", "list", "metadata"}, cl \in {"ok", "outerLog"} :
          StartRun(fp, cl)
    \/ \E fp \in {"none"} \cup MessageFails, rp \in {"none"} \cup ResolveFails,
          cl \in CatchLogs : ProcessMessage(fp, rp, cl)
    \/ \E fp \in {"none"} \cup ReportFails, partial \in BOOLEAN,
          cl \in {"ok", "outerLog"} : Report(fp, partial, cl)

\* extractSignupInfo applied to a message with the body xbody
ExtractStep ==
    /\ xrec = NoRec
    /\ xrec' = ExtractSignupInfo([subject |-> PrimarySubject, internalDate |-> 0,
                                  body |-> xbody])
    /\ UNCHANGED <<mainVars, xbody, xpayload, xout>>

NextExtract == ExtractStep

\* extractSignupInfo applied to a fetched message with the payload xpayload
FetchStep(fp) ==
    /\ xout = "none"
    /\ LET o == ExtractFetched(xpayload, fp)
       IN /\ xout' = o.out
          /\ xrec' = o.rec
    /\ last' = [NoLast EXCEPT !.op = "extract", !.fp = fp]
    /\ UNCHANGED <<mail, unread, now, folder, tables, tempFile, pc, messages,
                   idx, spreadsheetId, processedCount, skippedCount, runs,
                   faults, resolutions, startUnread, appendedRun, exportCalls,
                   sendCalls, broken, xbody, xpayload>>

NextFetch == \E fp \in {"none"} \cup FetchFails : FetchStep(fp)

Spec == Init /\ [][Next]_vars

SpecE2E == InitE2E /\ [][Next]_vars

SpecExtract == InitExtract /\ [][NextExtract]_vars

SpecFetch == InitFetch /\ [][NextFetch]_vars

\* isDuplicateEntry for the record of the body xbody, over the sheet as
\* createOrGetSpreadsheet makes it (the header row and nothing else)
HeaderStep ==
    /\ xout = "none"
    /\ xrec' = ExtractSignupInfo([subject |-> PrimarySubject, internalDate |-> 0,
                                  body |-> xbody])
    /\ xout' = IF IsDuplicateEntry(xrec', <<HeaderRow>>) THEN "duplicate" ELSE "new"
    /\ UNCHANGED <<mainVars, xbody, xpayload>>

NextHeader == HeaderStep

\* The scheduler starts run after run (run-gtsignups.sh under cron); no call
\* rejects, and the runs are not counted.
ScheduledStart ==
    /\ pc \in {"idle", "done"}
    /\ MainStart("none", "ok")
    /\ UNCHANGED <<runs, now, faults>>

\* The iteration for the next message: extractSignupInfo throws for a message
\* of broken, every time it is processed.
ScheduledMessage ==
    /\ pc = "loop"
    /\ idx <= Len(messages)
    /\ \E fp \in {"none", "fetch"} :
          /\ fp = (IF messages[idx] \in broken THEN "fetch" ELSE "none")
          /\ MainIteration(fp, "none", "ok")
    /\ UNCHANGED faults

ScheduledReport ==
    /\ MainReport("none", FALSE, "ok")
    /\ UNCHANGED faults

NextRepeat ==
    \/ ScheduledStart
    \/ ScheduledMessage
    \/ ScheduledReport

SpecHeader == InitHeader /\ [][NextHeader]_vars

\* The repeated runs: the scheduler keeps starting runs and every run goes on
\* to its end.
SpecRepeat == InitRepeat /\ [][NextRepeat]_vars /\ WF_vars(NextRepeat)

-----------------------------------------------------------------------------
(* Properties *)

Triple(r) == <<r[2], r[3], r[4]>>

TripleOf(data) == <<data.name, data.phone, data.email>>

Targets == {m \in DOMAIN mail : mail[m].subject \in {PrimarySubject, LegacySubject}}

\* The step is one iteration of the loop whose duplicate check returned.
CheckedIteration ==
    /\ pc = "loop"
    /\ idx <= Len(messages)
    /\ idx' = idx + 1
    /\ last'.dupChecked

\* The rows of the sheet the iteration resolved, as they were before it.
RowsBefore ==
    IF spreadsheetId' <= Len(tables) THEN tables[spreadsheetId'].rows
    ELSE <<HeaderRow>>

\* Every sheet but the resolved one is as it was, or new and holds the header.
OthersUntouched ==
    \A t \in DOMAIN tables' :
        t # spreadsheetId' =>
            tables'[t].rows = IF t <= Len(tables) THEN tables[t].rows
                              ELSE <<HeaderRow>>

\* The row of the record data as the sheet holds it after the append.
Appended(data) == UserEnteredRow(RowOf(data))

\* C1: a message whose triple equals the triple of a stored row gets no row
\* and (when no call rejects) is marked read; a message whose triple differs
\* from every stored row gets exactly one row (date, name, phone, email)
\* when no call rejects, and never more than one.
C1_Dedup ==
    [][CheckedIteration =>
        LET m == messages[idx]
            data == ExtractSignupInfo(mail[m])
            stored == \E i \in DOMAIN RowsBefore : Triple(RowsBefore[i]) = TripleOf(data)
            after == tables'[spreadsheetId'].rows
        IN /\ OthersUntouched
           /\ stored => /\ after = RowsBefore
                        /\ last'.fp = "none" => m \notin unread'
           /\ ~stored => /\ after \in {RowsBefore, Append(RowsBefore, Appended(data))}
                         /\ last'.fp = "none" => after = Append(RowsBefore, Appended(data))
    ]_vars

\* C1 witness: in a run that appended a row, a later message with a stored
\* triple was skipped and marked read.
C1_Witness ==
    /\ last.op = "message"
    /\ last.fp = "none"
    /\ last.isDup
    /\ last.marked
    /\ last.rowsAdded = 0
    /\ appendedRun >= 1

\* C2: every message the scanner returned is unread, carries one of the two
\* subjects and was received within the last 7 days.
C2_ScanWindow ==
    \A i \in DOMAIN messages :
        LET m == messages[i]
        IN /\ m \in startUnread
           /\ mail[m].subject \in {PrimarySubject, LegacySubject}
           /\ mail[m].internalDate >= After(now)

\* C3 as stated: mark-read runs for every message whose duplicate check has
\* been done, whatever the write step did.
C3_MarkUnconditional ==
    (last.op = "message" /\ last.dupChecked) => last.markCalled

WriteFails == {"logSkip", "saveResolve", "append", "logSaved", "logProcessed"}

\* C3 amended: mark-read runs exactly for the messages whose duplicate check
\* and write step (skip or append) completed, whether or not a row was
\* written; a message marked read is not returned by a later scan.
C3_MarkAfterWrite ==
    /\ last.op = "message" =>
          /\ last.markCalled = (last.dupChecked /\ last.fp \notin WriteFails)
          /\ last.marked => last.msg \notin unread
    /\ \A i \in DOMAIN messages : messages[i] \in startUnread

\* C3 witness: the append of a new record was rejected and the message was
\* left unread.
C3_Witness ==
    /\ last.op = "message"
    /\ last.fp = "append"
    /\ last.dupChecked
    /\ ~last.isDup
    /\ ~last.markCalled
    /\ last.msg \in unread

\* C4: without an appended record there is no export call and no send call;
\* with accepted records there is one export call and one send call (never
\* more, and both when no call of the report step rejects).
C4_ReportGating ==
    /\ appendedRun = 0 => (exportCalls = 0 /\ sendCalls = 0)
    /\ processedCount = 0 => (exportCalls = 0 /\ sendCalls = 0)
    /\ exportCalls <= 1
    /\ sendCalls <= exportCalls
    /\ (last.op = "report" /\ last.fp = "none" /\ processedCount > 0) =>
          (exportCalls = 1 /\ sendCalls = 1)

\* C4 witness: a run with accepted records ended after one export and one send.
C4_Witness ==
    /\ pc = "done"
    /\ last.op = "report"
    /\ last.fp = "none"
    /\ processedCount > 0
    /\ exportCalls = 1
    /\ sendCalls = 1

\* C5: the temporary export file does not exist once sendEmail has finished.
C5_TempFileRemoved ==
    (pc \in {"done", "crashed"} \/ last.op = "report") => ~tempFile

\* C5 witness: sendEmail wrote the file and the send was rejected.
C5_Witness ==
    /\ last.op = "report"
    /\ last.fp = "sendMail"
    /\ exportCalls = 1
    /\ sendCalls = 1

\* C6: consecutive calls of createOrGetSpreadsheet resolve to the same table:
\* once a call has created the table, no later call creates another one,
\* also when the creating call failed part-way.
C6_ResolveIdempotent == Len(tables) <= 1

\* C7: the store resolution is performed at most once in a run.
C7_ResolveOnce == resolutions <= 1

\* C8: a run started when every target message is read appends no row and
\* dispatches no report.
C8_SecondRunIdle ==
    (Targets \cap startUnread = {} /\ runs >= 1) =>
        (messages = <<>> /\ appendedRun = 0 /\ exportCalls = 0 /\ sendCalls = 0)

\* C8 witness: the second run ended, and the first one had marked every
\* target message read.
C8_Witness ==
    /\ runs = 2
    /\ pc = "done"
    /\ last.op = "report"
    /\ Targets # {}
    /\ Targets \cap startUnread = {}

\* The triples of the messages of the mailbox.
MailTriples == {TripleOf(ExtractSignupInfo(mail[m])) : m \in DOMAIN mail}

TripleB == << <<"Ann">>, NotProvided, <<"ann@x">> >>

\* C9: a run without a rejected call over the three messages A (all fields),
\* B (no phone row) and C (the triple of A) appends two rows, A's triple and
\* B's with phone "Not provided", marks the three messages read and
\* dispatches one report.
C9_EndToEnd ==
    (runs = 1 /\ pc = "done" /\ faults = 0 /\ Len(messages) = Cardinality(MainBodies)) =>
        /\ appendedRun = 2
        /\ Len(tables) = 1
        /\ tables[1].inFolder
        /\ Len(tables[1].rows) = 3
        /\ tables[1].rows[1] = HeaderRow
        /\ Cardinality(MailTriples) = 2
        /\ TripleB \in MailTriples
        /\ {Triple(tables[1].rows[i]) : i \in 2..3} = MailTriples
        /\ unread = {}
        /\ exportCalls = 1
        /\ sendCalls = 1

LabelSpellings ==
    [name |-> {"Full Name:", "FULL NAME:"}, phone |-> {"Phone:"}, email |-> {"Email:"}]

Labelled(body, f) == {i \in DOMAIN body : body[i].label \in LabelSpellings[f]}

Without(body, f) == SelectSeq(body, LAMBDA r : r.label \notin LabelSpellings[f])

Blank(s) == \A i \in DOMAIN s : s[i] = SP

\* t is s without its leading and trailing whitespace
Stripped(t, s) ==
    /\ t # <<>> => (t[1] # SP /\ t[Len(t)] # SP)
    /\ \E a, b \in 0..Len(s) :
          /\ a + Len(t) + b = Len(s)
          /\ \A i \in 1..Len(s) :
                IF i <= a \/ i > a + Len(t) THEN s[i] = SP ELSE s[i] = t[i - a]

\* C10: every field of the record is the trimmed content of a value cell
\* labelled for it, or "Not provided"; it is "Not provided" when no row is
\* labelled for it and the trimmed text of the first labelled row when that
\* holds text; it is never empty; a row taken away changes its own field only.
C10_Fields ==
    xrec # NoRec =>
        \A f \in FieldNames :
            LET rows == Labelled(xbody, f)
            IN /\ xrec[f] # <<>>
               /\ rows = {} => xrec[f] = NotProvided
               /\ \/ xrec[f] = NotProvided
                  \/ \E i \in rows : Stripped(xrec[f], xbody[i].cell)
               /\ \A i \in rows :
                     (/\ \A j \in rows : i <= j
                      /\ LT \notin Range(xbody[i].cell)
                      /\ ~Blank(xbody[i].cell))
                     => Stripped(xrec[f], xbody[i].cell)
               /\ \A i \in rows : Blank(xbody[i].cell) /\ rows = {i}
                     => xrec[f] = NotProvided
               /\ \A g \in FieldNames \ {f} :
                     ExtractSignupInfo([subject |-> PrimarySubject, internalDate |-> 0,
                                        body |-> Without(xbody, f)])[g] = xrec[g]

\* C10 witness: no name row, a phone cell of whitespace only and an email
\* cell with surrounding whitespace.
C10_Witness ==
    /\ xrec # NoRec
    /\ Labelled(xbody, "name") = {}
    /\ \E i \in Labelled(xbody, "phone") : xbody[i].cell = <<SP>>
    /\ xrec.name = NotProvided
    /\ xrec.phone = NotProvided
    /\ xrec.email = <<"Bo">>

\* C11: extractSignupInfo returns a record, every field of it populated, for
\* every fetched message, whatever its structure, when no call rejects.
C11_ReturnsRecord ==
    (xout # "none" /\ last.fp = "none") =>
        /\ xout = "returned"
        /\ \A f \in FieldNames : xrec[f] # <<>>

\* C12: whatever operation fails during a run, no error escapes main.
C12_NoEscape == pc # "crashed"

\* C13: a failure while processing one message aborts only that message.  After
\* a failed iteration whose catch clause logged the error, main is in the loop
\* at the next message of the same list; a run ends only at the report step,
\* with every message of the list iterated, unless a log write in a catch
\* clause rejected or the run failed before the loop.
C13_AbortsOnlyMessage ==
    /\ (last.op = "message" /\ last.fp # "none" /\ last.cl = "ok") =>
          /\ pc = "loop"
          /\ idx <= Len(messages) + 1
          /\ messages[idx - 1] = last.msg
    /\ (pc \in {"done", "crashed"} /\ last.cl = "ok") =>
          \/ last.op = "start" /\ last.fp # "none"
          \/ last.op = "report" /\ idx = Len(messages) + 1

\* C13 witness: the run reached the report and sent it after the first of two
\* messages failed and the second was appended and marked read.
C13_Witness ==
    /\ pc = "done"
    /\ last.op = "report"
    /\ last.fp = "none"
    /\ runs = 1
    /\ faults = 1
    /\ Len(messages) = 2
    /\ unread = {messages[1]}
    /\ processedCount = 1
    /\ sendCalls = 1

\* C14: when mark-read rejects for a message whose row was just appended, the
\* row stays at the end of the sheet, the record stays counted (the report
\* gate of the run is open), the message stays unread, and the loop goes on
\* to the next message when the catch clause logged the error.
C14_MarkFailsAfterAppend ==
    (last.op = "message" /\ last.fp = "modify" /\ last.rowsAdded = 1) =>
        LET rows == tables[spreadsheetId].rows
        IN /\ rows[Len(rows)] = Appended(last.rec)
           /\ processedCount >= 1
           /\ ReportGate(processedCount)
           /\ last.markCalled /\ ~last.marked
           /\ last.msg \in unread
           /\ last.cl = "ok" => (pc = "loop" /\ messages[idx - 1] = last.msg)

\* C14 witness: mark-read was rejected after the append of the first record of
\* the run, and the loop goes on.
C14_Witness ==
    /\ last.op = "message"
    /\ last.fp = "modify"
    /\ last.rowsAdded = 1
    /\ last.cl = "ok"
    /\ processedCount = 1
    /\ pc = "loop"

\* C15: for every record extracted from a body, isDuplicateEntry over a sheet
\* that holds only the header row returns false.
C15_HeaderNeverMatches == xout # "duplicate"

\* The messages of a subject that were unread when the run started.
UnreadAtStart(subject) == {m \in startUnread : mail[m].subject = subject}

\* The scan of the current run returned.
Scanned == runs >= 1 /\ ~(last.op = "start" /\ last.fp # "none")

\* C16: queryEmails returns the unread primary messages when there is one, the
\* unread legacy messages otherwise (the empty list when there is none of
\* either), each once; it never returns messages of both subjects.
C16_FirstNonEmpty ==
    Scanned =>
        /\ Range(messages) = IF UnreadAtStart(PrimarySubject) # {}
                             THEN UnreadAtStart(PrimarySubject)
                             ELSE UnreadAtStart(LegacySubject)
        /\ Len(messages) = Cardinality(Range(messages))
        /\ \A i, j \in DOMAIN messages :
              mail[messages[i]].subject = mail[messages[j]].subject

\* C16 witness: messages of both subjects were unread and the scan returned
\* the primary ones only.
C16_Witness ==
    /\ Scanned
    /\ last.op = "start"
    /\ UnreadAtStart(PrimarySubject) # {}
    /\ UnreadAtStart(LegacySubject) # {}
    /\ Range(messages) = UnreadAtStart(PrimarySubject)

\* The iteration for message m was run in the current run.
Processed(m) == \E i \in DOMAIN messages : messages[i] = m /\ idx > i

\* C17: over the repeated runs every unread message of the primary and of the
\* legacy subject is eventually returned by queryEmails and processed, also
\* when the processing of a primary message fails in every run.
C17_NeitherSubjectMissed ==
    \A m \in 1..NumMsgs :
        (m \in unread /\ mail[m].subject \in {PrimarySubject, LegacySubject})
            ~> Processed(m)

\* C18: no sheet ever holds two data rows with the same (name, phone, email)
\* triple.
C18_DistinctTriples ==
    \A t \in DOMAIN tables :
        \A i, j \in 2..Len(tables[t].rows) :
            i # j => Triple(tables[t].rows[i]) # Triple(tables[t].rows[j])

\* A data row of a sheet holds the triple extracted from message m.
HasRow(m) ==
    \E t \in DOMAIN tables : \E i \in 2..Len(tables[t].rows) :
        Triple(tables[t].rows[i]) = TripleOf(ExtractSignupInfo(mail[m]))

\* C19: each message marked read has a row with its extracted triple in the
\* store; mark-read is attempted only for a message of the run's list, after
\* its duplicate check returned and it was skipped as a duplicate or appended.
C19_NoLostRegistration ==
    /\ \A m \in DOMAIN mail \ unread : HasRow(m)
    /\ (last.op = "message" /\ last.markCalled) =>
          /\ \E i \in DOMAIN messages : messages[i] = last.msg
          /\ last.dupChecked
          /\ last.isDup \/ last.rowsAdded = 1
          /\ last.fp \notin {"fetch", "resolve", "valuesGet", "append"}

====
